---- MODULE Spec2Model ----
(***************************************************************************)
(* Model of iCubPushGymEnv                                                 *)
(*   src/pybullet_robot_envs/envs/icub_envs/icub_push_gym_env.py           *)
(*                                                                         *)
(* Numbers are fixed point integers:                                       *)
(*   positions of bodies (object, observed hand, target)  : millimetres    *)
(*   persisted hand pose, scaled action, joint targets    : 1e-6 (um/urad) *)
(*   distances returned by goal_distance                  : 1e-5 m         *)
(*   rewards                                              : 1e-5           *)
(* Products of two fixed point numbers are rounded toward zero.            *)
(*                                                                         *)
(* step() is modelled by its program positions: StepBegin (lines 205-222), *)
(* one Repeat per iteration of the repeat loop (lines 224-269, the physics *)
(* engine answers each iteration with a new scene) and StepEnd (lines      *)
(* 276-282).  While pc # "idle" only the continuation of step() is enabled.*)
(***************************************************************************)
EXTENDS Integers, Sequences, FiniteSets, TLC

\* ------------------------------------------------------------------ bounds
MaxRepeat == 2          \* action_repeat ranges over 1..MaxRepeat
MaxStepsCfg == 1        \* max_steps of the modelled configuration
RngMod == 3             \* number of states of the global numpy generator
MaxSeed == 1            \* seeds passed to seed() range over 0..MaxSeed
MaxCalls == MaxStepsCfg + 2   \* step() calls explored per episode

\* --------------------------------------------------------- program constants
TargetDistMin == 3000   \* self._target_dist_min = 0.03 (1e-5 m)
ReachDist == 10000      \* d1 > 0.1 (1e-5 m)
Bonus == 100000000      \* np.float32(1000.0) (1e-5)
TgOffset == 50          \* + 0.05 (mm)
TgMargin == 70          \* 0.07 (mm)
One == 1000000          \* 1.0 in 1e-6 units

VARIABLES
    \* configuration (constructor arguments)
    action_repeat, use_IK, control_orientation, renders, max_steps,
    reward_type, tg_pose_rnd_std,
    \* episode state of the environment
    env_step_counter, terminated, tg_pose, hand_pose,
    init_dist_hand_obj, max_dist_obj_tg, np_random,
    \* position inside step(): program counter, loop index, local array
    pc, rep, action,
    \* collaborators: robot, world, global numpy generator
    home_hand_pose, workspace, hand_obs, obj_pos, joints, np_global,
    \* observation of the run (history of the current call / episode)
    was_reset, calls, norm_action, counter_start, repeats, broke, chk,
    slept, hand_before, pre_clip, dispatched, done, reward, reset_from,
    \* the environment constructed before this one in the same process
    first,
    \* whether self._hand_pose is the very list object robot._home_hand_pose
    hand_alias,
    \* the controlled-joint values read on the last repeat (joint control)
    joints_read,
    \* lengths of the vector and of the bounds list get_extended_observation
    \* returned last, and the dimension of the declared observation space
    obs_len, lim_len, observation_space_dim

cfgVars == <<action_repeat, use_IK, control_orientation, renders, max_steps,
             reward_type, tg_pose_rnd_std>>
envVars == <<env_step_counter, terminated, tg_pose, hand_pose,
             init_dist_hand_obj, max_dist_obj_tg>>
robotVars == <<home_hand_pose, workspace>>
sceneVars == <<hand_obs, obj_pos, joints>>
histVars == <<was_reset, calls, norm_action, counter_start, repeats, broke,
              chk, slept, hand_before, pre_clip, dispatched, done, reward>>
obsVars == <<obs_len, lim_len, observation_space_dim>>
vars == <<cfgVars, envVars, np_random, pc, rep, action, robotVars, sceneVars,
          np_global, histVars, reset_from, first, hand_alias, joints_read,
          obsVars>>

\* ------------------------------------------------------------- arithmetic
Min(a, b) == IF a <= b THEN a ELSE b

Max(a, b) == IF a >= b THEN a ELSE b

\* quotient rounded toward zero
QuotZ(a, b) == IF a >= 0 THEN a \div b ELSE -((-a) \div b)

\* x * (n/1000) on fixed point numbers: the in-place "action *= 0.005" etc.
MulScale(x, n) == QuotZ(x * n, 1000)

RECURSIVE IsqrtIter(_, _, _)
IsqrtIter(n, lo, hi) ==
    IF lo >= hi THEN lo
    ELSE LET mid == (lo + hi + 1) \div 2
         IN  IF mid * mid <= n THEN IsqrtIter(n, mid, hi)
                               ELSE IsqrtIter(n, lo, mid - 1)

Isqrt(n) == IsqrtIter(n, 0, 46340)

DistSq(a, b) == (a[1] - b[1]) * (a[1] - b[1]) + (a[2] - b[2]) * (a[2] - b[2])
                + (a[3] - b[3]) * (a[3] - b[3])

\* utils.goal_distance: Euclidean distance of two 3-vectors (mm -> 1e-5 m)
goal_distance(a, b) == Isqrt(DistSq(a, b) * 10000)

\* utils.scale_gym_data: affine map of the box [low, high] onto [-1, 1]
scale_gym_data(low, high, v) ==
    [i \in 1..Len(v) |-> QuotZ(2 * (v[i] - low) * One, high - low) - One]

\* min(hi, max(lo, x)) of lines 241-250; np.clip of lines 397-398
Clip(x, lo, hi) == Min(hi, Max(lo, x))

\* --------------------------------------------- collaborators (robot, world)
\* iCubEnv workspace limits, mm
RobotWorkspace == <<<<250, 520>>, <<-200, 200>>, <<500, 1000>>>>

\* WorldEnv.get_table_height(), mm
TableHeight == 600

\* iCubEnv.get_rotation_lim(), 1e-6 rad
RotationLim == <<<<-1570796, 1570796>>, <<-1570796, 1570796>>, <<-1570796, 1570796>>>>

\* iCubEnv._home_hand_pose: position (1e-6 m) and Euler angles (1e-6 rad)
HomeHandPose == <<516000, 0, 603000, 0, 0, 1560796>>

\* len(iCubEnv._joints_to_control) of the modelled robot
NumJoints == 2

\* iCubEnv.get_action_dim()
ActionDim(ik, orn) == IF ik = 1 THEN (IF orn = 1 THEN 6 ELSE 3) ELSE NumJoints

\* normalized actions an agent sends, per control mode
Actions(ik, orn) ==
    IF ik = 1
    THEN IF orn = 1 THEN {<<1, 0, 0, 0, 0, 1>>, <<0, 0, -1, 0, 0, -1>>}
                    ELSE {<<1, 0, 0>>, <<0, 0, -1>>}
    ELSE {<<1, -1>>, <<0, 1>>}

\* scenes world.reset()/robot.reset() and the settling steps can leave (mm)
ResetScenes ==
    { [hand |-> <<350, 0, 920>>, obj |-> <<350, 0, 620>>, joints |-> <<0, 0>>],
      [hand |-> <<350, 0, 920>>, obj |-> <<450, 200, 620>>, joints |-> <<0, 0>>] }

\* scenes one p.stepSimulation() can leave (mm, 1e-6 rad)
PhysicsOutcomes ==
    { [hand |-> <<350, 0, 770>>, obj |-> <<350, 0, 620>>, joints |-> <<0, 0>>],
      [hand |-> <<350, 0, 700>>, obj |-> <<400, 19, 620>>, joints |-> <<100000, -50000>>],
      [hand |-> <<350, 0, 700>>, obj |-> <<400, 20, 620>>, joints |-> <<100000, -50000>>] }

\* object positions world.reset() is asked to leave when the target sampler
\* is examined on its own: inside, on the edge of and outside the workspace
SampleScenes ==
    { [hand |-> <<350, 0, 920>>, obj |-> <<x, y, 620>>, joints |-> <<0, 0>>] :
        x \in {240, 300, 350, 400, 460, 520}, y \in {-210, -200, 0, 160, 200} }

\* np.random: the process-wide generator, a stream position
NextRng(g) == (g + 1) % RngMod

\* one standard normal variate drawn at stream position g
StdNormal(g) == (g % 3) - 1

\* tg_pose_rnd_std values of the modelled configurations (mm); 0.2 is the default
SigmaCfg == 200

\* ------------------------------------------------------------ pure methods
sample_tg_poseNoMargin(obj, sigma, ws, g) ==
    LET x_min == ws[1][1]
        x_max == ws[1][2]
        y_min == ws[2][1]
        y_max == ws[2][2]
        px == IF sigma > 0 THEN obj[1] + sigma * StdNormal(g)
                           ELSE obj[1] + TgOffset
        py == IF sigma > 0 THEN obj[2] + sigma * StdNormal(NextRng(g))
                           ELSE obj[2] + TgOffset
    IN  [pose |-> <<Clip(px, x_min, x_max), Clip(py, y_min, y_max), obj[3]>>,
         g |-> IF sigma > 0 THEN NextRng(NextRng(g)) ELSE g]

\* sample_tg_pose (lines 375-402): the pose and the generator state it leaves
sample_tg_pose(obj, sigma, ws, g) ==
    LET x_min == ws[1][1] + TgMargin
        x_max == ws[1][2] - TgMargin
        y_min == ws[2][1]
        y_max == ws[2][2]
        px == IF sigma > 0 THEN obj[1] + sigma * StdNormal(g)
                           ELSE obj[1] + TgOffset
        py == IF sigma > 0 THEN obj[2] + sigma * StdNormal(NextRng(g))
                           ELSE obj[2] + TgOffset
    IN  [pose |-> <<Clip(px, x_min, x_max), Clip(py, y_min, y_max), obj[3]>>,
         g |-> IF sigma > 0 THEN NextRng(NextRng(g)) ELSE g]

TerminationNotSticky(term, counter, maxsteps, obj, tg) ==
    LET d == goal_distance(obj, tg)
    IN  IF d <= TargetDistMin THEN [ret |-> 1, terminated |-> 1]
        ELSE IF counter > maxsteps THEN [ret |-> 1, terminated |-> term]
        ELSE [ret |-> 0, terminated |-> term]

TerminationStrict(term, counter, maxsteps, obj, tg) ==
    LET d == goal_distance(obj, tg)
    IN  IF d < TargetDistMin THEN [ret |-> 1, terminated |-> 1]
        ELSE IF term = 1 \/ counter > maxsteps THEN [ret |-> 1, terminated |-> term]
        ELSE [ret |-> 0, terminated |-> term]

TerminationLateOverflow(term, counter, maxsteps, obj, tg) ==
    LET d == goal_distance(obj, tg)
    IN  IF d <= TargetDistMin THEN [ret |-> 1, terminated |-> 1]
        ELSE IF term = 1 \/ counter > maxsteps + 1 THEN [ret |-> 1, terminated |-> term]
        ELSE [ret |-> 0, terminated |-> term]

\* _termination (lines 327-342): the value returned and the terminated flag
Termination(term, counter, maxsteps, obj, tg) ==
    LET d == goal_distance(obj, tg)
    IN  IF d <= TargetDistMin THEN [ret |-> 1, terminated |-> 1]
        ELSE IF term = 1 \/ counter > maxsteps THEN [ret |-> 1, terminated |-> term]
        ELSE [ret |-> 0, terminated |-> term]

Value(x) == [kind |-> "value", v |-> x]

\* result of a numpy float expression that divided by zero: inf or nan
NonFinite == [kind |-> "nonfinite", v |-> 0]

NoReward == [kind |-> "none", v |-> 0]

\* rew * (1 - d / ref) of lines 364 and 367, thousandths rew, in 1e-5
Staged(rew, d, ref) == QuotZ(rew * (10000 - QuotZ(d * 10000, ref)), 100)

ComputeRewardBonusStrict(rt, hand, obj, tg, init, maxd) ==
    LET d1 == goal_distance(hand, obj)
        d2 == goal_distance(obj, tg)
        bonus == IF d2 < TargetDistMin THEN Bonus ELSE 0
    IN  IF rt = 0 THEN Value(-d1 - d2 + bonus)
        ELSE IF rt = 1 THEN
            IF d1 > ReachDist
            THEN IF init = 0 THEN NonFinite
                 ELSE Value(Staged(125, d1, init) + bonus)
            ELSE IF init = 0 \/ maxd = 0 THEN NonFinite
                 ELSE Value(Staged(125, d1, init) + Staged(250, d2, maxd) + bonus)
        ELSE Value(0)

ComputeRewardBonusLoose(rt, hand, obj, tg, init, maxd) ==
    LET d1 == goal_distance(hand, obj)
        d2 == goal_distance(obj, tg)
        bonus == IF d2 <= TargetDistMin + 100 THEN Bonus ELSE 0
    IN  IF rt = 0 THEN Value(-d1 - d2 + bonus)
        ELSE IF rt = 1 THEN
            IF d1 > ReachDist
            THEN IF init = 0 THEN NonFinite
                 ELSE Value(Staged(125, d1, init) + bonus)
            ELSE IF init = 0 \/ maxd = 0 THEN NonFinite
                 ELSE Value(Staged(125, d1, init) + Staged(250, d2, maxd) + bonus)
        ELSE Value(0)

\* _compute_reward (lines 344-373)
ComputeReward(rt, hand, obj, tg, init, maxd) ==
    LET d1 == goal_distance(hand, obj)
        d2 == goal_distance(obj, tg)
        bonus == IF d2 <= TargetDistMin THEN Bonus ELSE 0
    IN  IF rt = 0 THEN Value(-d1 - d2 + bonus)
        ELSE IF rt = 1 THEN
            IF d1 > ReachDist
            THEN IF init = 0 THEN NonFinite
                 ELSE Value(Staged(125, d1, init) + bonus)
            ELSE IF init = 0 \/ maxd = 0 THEN NonFinite
                 ELSE Value(Staged(125, d1, init) + Staged(250, d2, maxd) + bonus)
        ELSE Value(0)

ResetCounterKeep(c) == c

\* self._env_step_counter = 0 (line 140)
ResetCounter(c) == 0

NextCounterAlways(ret, c) == c + 1

\* "if self._termination(): break" then "self._env_step_counter += 1" (266-269)
NextCounter(ret, c) == IF ret = 1 THEN c ELSE c + 1

ClipPositionOff(v, ws) == v

\* constraint position inside workspace (lines 246-250); ws in mm, v in 1e-6
ClipPosition(v, ws) ==
    [i \in 1..Len(v) |->
        IF i <= 3 THEN Clip(v[i], ws[i][1] * 1000, ws[i][2] * 1000) ELSE v[i]]

\* constraint rotation inside limits (lines 240-243)
ClipRotation(v, eu) ==
    [i \in 1..Len(v) |->
        IF i >= 4 /\ i <= 6 THEN Clip(v[i], eu[i - 3][1], eu[i - 3][2]) ELSE v[i]]

\* the in-place scaling of the local array on one repeat (lines 230, 234-235,
\* 256): a is the array as the previous repeat left it
ScaleAction(a, ik, orn) ==
    [i \in 1..Len(a) |->
        IF ik = 1
        THEN IF orn = 0 THEN MulScale(a[i], 5)
             ELSE IF i <= 3 THEN MulScale(a[i], 10) ELSE MulScale(a[i], 20)
        ELSE MulScale(a[i], 50)]

Add(u, v) == [i \in 1..Len(v) |-> u[i] + v[i]]

StoreHandPoseInPlace(home, alias, new) ==
    [hand |-> new,
     home |-> IF alias THEN [i \in 1..Len(home) |->
                                IF i <= Len(new) THEN new[i] ELSE home[i]]
                       ELSE home,
     alias |-> alias]

\* self._hand_pose = new_action (line 253): the name is bound to the array
\* np.add created, the list it was bound to before is not written
StoreHandPose(home, alias, new) ==
    [hand |-> new, home |-> home, alias |-> FALSE]

NextPcNoBreak(ret, r, R) == IF r + 1 >= R THEN "finish" ELSE "loop"

\* "if self._termination(): break" inside "for _ in range(action_repeat)"
\* (lines 224, 266-267): where step() continues after repeat number r + 1
NextPc(ret, r, R) == IF ret = 1 \/ r + 1 >= R THEN "finish" ELSE "loop"

\* iCubEnv.get_observation(): hand position, hand Euler angles (not tracked,
\* 0), controlled joints; and its limits list of the same length
RobotObservation(hand, jts) == hand \o <<0, 0, 0>> \o jts

RobotObsLim(ws) == ws \o RotationLim \o [i \in 1..NumJoints |-> <<-3141593, 3141593>>]

\* WorldEnv.get_observation(): object position and Euler angles (not tracked,
\* 0); and its limits list of the same length
WorldObservation(obj) == obj \o <<0, 0, 0>>

WorldObsLim(ws) == ws \o [i \in 1..3 |-> <<0, 6283185>>]

\* p.invertTransform and p.multiplyTransforms of lines 184-190 for the poses
\* the model tracks (all Euler angles 0): position and Euler angles of the
\* object in the hand frame
ObjInHand(robot_obs, world_obs) ==
    [i \in 1..6 |-> world_obs[i] - robot_obs[i]]

GetExtendedObservationNoTargetLim(robot_obs, robot_lim, world_obs, world_lim, tg) ==
    [obs |-> robot_obs \o world_obs \o ObjInHand(robot_obs, world_obs) \o tg,
     lim |-> robot_lim \o world_lim
             \o <<<<-500, 500>>, <<-500, 500>>, <<-500, 500>>>>
             \o <<<<0, 6283185>>, <<0, 6283185>>, <<0, 6283185>>>>]

\* get_extended_observation (lines 166-203): the vector and the bounds list
GetExtendedObservation(robot_obs, robot_lim, world_obs, world_lim, tg) ==
    [obs |-> robot_obs \o world_obs \o ObjInHand(robot_obs, world_obs) \o tg,
     lim |-> robot_lim \o world_lim
             \o <<<<-500, 500>>, <<-500, 500>>, <<-500, 500>>>>
             \o <<<<0, 6283185>>, <<0, 6283185>>, <<0, 6283185>>>>
             \o SubSeq(world_lim, 1, Min(3, Len(world_lim)))]

\* the observation of a scene, as reset(), step() and create_gym_spaces ask it
Observe(hand, obj, jts, ws, tg) ==
    GetExtendedObservation(RobotObservation(hand, jts), RobotObsLim(ws),
                           WorldObservation(obj), WorldObsLim(ws), tg)

\* ------------------------------------------------------------------ state
NoChk == [ret |-> -1, term_before |-> 0, counter |-> 0]

NoEnv == [set |-> FALSE, seed |-> -1, obj |-> <<0, 0, 0>>, tg |-> <<0, 0, 0>>]

\* __init__ (lines 27-91): the state after construction, for every modelled
\* configuration; the workspace z-minimum is the table height (lines 81-84);
\* seed() of line 90 seeds self.np_random from entropy (np_random = -1)
Init ==
    /\ action_repeat \in 1..MaxRepeat
    /\ use_IK \in {0, 1}
    /\ control_orientation \in {0, 1}
    /\ renders \in BOOLEAN
    /\ max_steps = MaxStepsCfg
    /\ reward_type \in {0, 1}
    /\ tg_pose_rnd_std \in {0, SigmaCfg}
    /\ env_step_counter = 0
    /\ terminated = 0
    /\ tg_pose = <<0, 0, 0>>
    /\ hand_pose = <<>>
    /\ init_dist_hand_obj = -1
    /\ max_dist_obj_tg = -1
    /\ np_random = -1
    /\ pc = "idle"
    /\ rep = 0
    /\ action = <<>>
    /\ home_hand_pose = HomeHandPose
    /\ workspace = [RobotWorkspace EXCEPT ![3][1] = TableHeight]
    /\ hand_obs = <<350, 0, 920>>
    /\ obj_pos = <<350, 0, 620>>
    /\ joints = <<0, 0>>
    /\ np_global \in 0..(RngMod - 1)
    /\ was_reset = FALSE
    /\ calls = 0
    /\ norm_action = <<>>
    /\ counter_start = 0
    /\ repeats = 0
    /\ broke = FALSE
    /\ chk = NoChk
    /\ slept = FALSE
    /\ hand_before = <<>>
    /\ pre_clip = <<>>
    /\ dispatched = <<>>
    /\ done = -1
    /\ reward = NoReward
    /\ reset_from = "new"
    /\ first = NoEnv
    /\ hand_alias = FALSE
    /\ joints_read = <<>>
    /\ LET o == Observe(<<350, 0, 920>>, <<350, 0, 620>>, <<0, 0>>,
                        [RobotWorkspace EXCEPT ![3][1] = TableHeight],
                        <<0, 0, 0>>)
       IN  /\ obs_len = Len(o.obs)
           /\ lim_len = Len(o.lim)
           /\ observation_space_dim = Len(o.lim)

\* seed (lines 284-288)
Seed(s) ==
    /\ pc = "idle"
    /\ np_random' = s
    /\ UNCHANGED <<cfgVars, envVars, pc, rep, action, robotVars, sceneVars,
                   np_global, histVars, reset_from, first, hand_alias,
                   joints_read, obsVars>>

\* reset (lines 115-131) with reset_simulation (lines 133-164)
\* sc is the scene robot.reset(), world.reset() and the settling steps leave
ResetAt(sc) ==
    /\ pc = "idle"
    /\ LET tg == sample_tg_pose(sc.obj, tg_pose_rnd_std, workspace, np_global)
           o == Observe(sc.hand, sc.obj, sc.joints, workspace, tg.pose)
       IN  /\ hand_obs' = sc.hand
           /\ obj_pos' = sc.obj
           /\ joints' = sc.joints
           /\ tg_pose' = tg.pose
           /\ np_global' = tg.g
           /\ init_dist_hand_obj' = goal_distance(sc.hand, sc.obj)
           /\ max_dist_obj_tg' = goal_distance(sc.obj, tg.pose)
           /\ obs_len' = Len(o.obs)
           /\ lim_len' = Len(o.lim)
    /\ terminated' = 0
    /\ env_step_counter' = ResetCounter(env_step_counter)
    /\ hand_pose' = IF use_IK = 1 THEN home_hand_pose ELSE hand_pose
    /\ hand_alias' = IF use_IK = 1 THEN TRUE ELSE hand_alias
    /\ joints_read' = <<>>
    /\ was_reset' = TRUE
    /\ calls' = 0
    /\ norm_action' = <<>>
    /\ counter_start' = 0
    /\ repeats' = 0
    /\ broke' = FALSE
    /\ chk' = NoChk
    /\ slept' = FALSE
    /\ hand_before' = <<>>
    /\ pre_clip' = <<>>
    /\ dispatched' = <<>>
    /\ done' = -1
    /\ reward' = NoReward
    /\ reset_from' = IF chk.ret = 1 THEN "terminated"
                     ELSE IF was_reset THEN "ready" ELSE "new"
    /\ UNCHANGED <<cfgVars, np_random, pc, rep, action, robotVars, first,
                   observation_space_dim>>

Reset == \E sc \in ResetScenes : ResetAt(sc)

\* step -> apply_action, up to the repeat loop (lines 205-222): the pacing
\* sleep of rendering mode happens when time_to_sleep > 0, which depends on
\* the wall clock
StepBegin(a) ==
    /\ pc = "idle"
    /\ was_reset
    /\ calls < MaxCalls
    /\ Len(a) = ActionDim(use_IK, control_orientation)
    /\ slept' \in (IF renders THEN BOOLEAN ELSE {FALSE})
    /\ action' = scale_gym_data(-1, 1, a)
    /\ pc' = "loop"
    /\ rep' = 0
    /\ calls' = calls + 1
    /\ norm_action' = a
    /\ counter_start' = env_step_counter
    /\ repeats' = 0
    /\ broke' = FALSE
    /\ hand_before' = <<>>
    /\ pre_clip' = <<>>
    /\ dispatched' = <<>>
    /\ done' = -1
    /\ reward' = NoReward
    /\ joints_read' = <<>>
    /\ UNCHANGED <<cfgVars, envVars, np_random, robotVars, sceneVars,
                   np_global, was_reset, chk, reset_from, first, hand_alias,
                   obsVars>>

\* one iteration of the repeat loop (lines 224-269)
Repeat ==
    /\ pc = "loop"
    /\ LET act == ScaleAction(action, use_IK, control_orientation)
           base == IF control_orientation = 0 THEN SubSeq(hand_pose, 1, 3)
                                              ELSE hand_pose
           sum == IF use_IK = 1 THEN Add(base, act) ELSE Add(joints, act)
           rot == IF use_IK = 1 /\ control_orientation = 1
                  THEN ClipRotation(sum, RotationLim) ELSE sum
           new_action == IF use_IK = 1 THEN ClipPosition(rot, workspace) ELSE sum
           st == StoreHandPose(home_hand_pose, hand_alias, new_action)
       IN  /\ action' = act
           /\ hand_before' = IF use_IK = 1 THEN hand_pose ELSE <<>>
           /\ pre_clip' = IF use_IK = 1 THEN sum ELSE <<>>
           /\ hand_pose' = IF use_IK = 1 THEN st.hand ELSE hand_pose
           /\ home_hand_pose' = IF use_IK = 1 THEN st.home ELSE home_hand_pose
           /\ hand_alias' = IF use_IK = 1 THEN st.alias ELSE hand_alias
           /\ joints_read' = IF use_IK = 1 THEN <<>> ELSE joints
           /\ dispatched' = new_action
    /\ \E o \in PhysicsOutcomes :
        /\ hand_obs' = o.hand
        /\ obj_pos' = o.obj
        /\ joints' = o.joints
        /\ LET t == Termination(terminated, env_step_counter, max_steps,
                                o.obj, tg_pose)
           IN  /\ terminated' = t.terminated
               /\ chk' = [ret |-> t.ret, term_before |-> terminated,
                          counter |-> env_step_counter]
               /\ env_step_counter' = NextCounter(t.ret, env_step_counter)
               /\ broke' = (t.ret = 1)
               /\ rep' = rep + 1
               /\ pc' = NextPc(t.ret, rep, action_repeat)
    /\ slept' = TRUE
    /\ repeats' = repeats + 1
    /\ UNCHANGED <<cfgVars, tg_pose, init_dist_hand_obj, max_dist_obj_tg,
                   np_random, workspace, np_global, was_reset, calls,
                   norm_action, counter_start, done, reward, reset_from, first,
                   obsVars>>

\* step after apply_action (lines 276-282): done and reward returned
StepEnd ==
    /\ pc = "finish"
    /\ LET o == Observe(hand_obs, obj_pos, joints, workspace, tg_pose)
       IN  /\ obs_len' = Len(o.obs)
           /\ lim_len' = Len(o.lim)
    /\ LET t == Termination(terminated, env_step_counter, max_steps,
                            obj_pos, tg_pose)
       IN  /\ terminated' = t.terminated
           /\ chk' = [ret |-> t.ret, term_before |-> terminated,
                      counter |-> env_step_counter]
           /\ done' = t.ret
    /\ reward' = ComputeReward(reward_type, hand_obs, obj_pos, tg_pose,
                               init_dist_hand_obj, max_dist_obj_tg)
    /\ pc' = "idle"
    \* the locals of apply_action and the record of its repeats end with the call
    /\ rep' = 0
    /\ action' = <<>>
    /\ norm_action' = <<>>
    /\ hand_before' = <<>>
    /\ pre_clip' = <<>>
    /\ dispatched' = <<>>
    /\ joints_read' = <<>>
    /\ UNCHANGED <<cfgVars, env_step_counter, tg_pose, hand_pose,
                   init_dist_hand_obj, max_dist_obj_tg, np_random,
                   robotVars, sceneVars, np_global, was_reset, calls,
                   counter_start, repeats, broke, slept, reset_from, first,
                   hand_alias, observation_space_dim>>

\* a second environment of the same configuration is constructed in the same
\* process (lines 27-91): the process-wide numpy generator is shared
NewEnv ==
    /\ pc = "idle"
    /\ was_reset
    /\ ~first.set
    /\ first' = [set |-> TRUE, seed |-> np_random, obj |-> obj_pos,
                 tg |-> tg_pose]
    /\ env_step_counter' = 0
    /\ terminated' = 0
    /\ tg_pose' = <<0, 0, 0>>
    /\ hand_pose' = <<>>
    /\ init_dist_hand_obj' = -1
    /\ max_dist_obj_tg' = -1
    /\ np_random' = -1
    /\ was_reset' = FALSE
    /\ calls' = 0
    /\ chk' = NoChk
    /\ done' = -1
    /\ reward' = NoReward
    /\ reset_from' = "new"
    /\ hand_alias' = FALSE
    /\ LET o == Observe(hand_obs, obj_pos, joints, workspace, <<0, 0, 0>>)
       IN  /\ obs_len' = Len(o.obs)
           /\ lim_len' = Len(o.lim)
           /\ observation_space_dim' = Len(o.lim)
    /\ UNCHANGED <<cfgVars, pc, rep, action, robotVars, sceneVars, np_global,
                   norm_action, counter_start, repeats, broke, slept,
                   hand_before, pre_clip, dispatched, joints_read>>

Next ==
    \/ Reset
    \/ \E a \in Actions(use_IK, control_orientation) : StepBegin(a)
    \/ Repeat
    \/ StepEnd

Spec == Init /\ [][Next]_vars

\* seeding and resetting two environments, one after the other
NextSeed ==
    \/ \E s \in 0..MaxSeed : Seed(s)
    \/ Reset
    \/ NewEnv

SpecSeed == Init /\ [][NextSeed]_vars

\* reset() with the object anywhere on the grid of SampleScenes
NextSample == \E sc \in SampleScenes : ResetAt(sc)

SpecSample == Init /\ [][NextSample]_vars

\* ------------------------------------------------------------- properties

\* C1: termination is sticky: once a termination check of an episode has
\* returned terminal, every later check before the next reset() returns
\* terminal as well, wherever the object is and however many steps follow.
C1_TerminationSticky ==
    [][(chk.ret = 1 /\ chk'.ret # -1) => chk'.ret = 1]_vars

\* a check that is terminal only because an earlier check of the episode was:
\* the object has left the target and the counter has not overflowed
C1_Witness ==
    /\ chk.ret = 1
    /\ chk.term_before = 1
    /\ DistSq(obj_pos, tg_pose) > 900
    /\ chk.counter <= max_steps
    /\ calls >= 2

\* C2 (as stated): after the k repeats of a step(), the k-th possibly
\* terminating, step_counter has grown by exactly k.
C2_CounterPerRepeat ==
    (pc = "idle" /\ calls > 0) => env_step_counter = counter_start + repeats

\* C2 (amended): step_counter grows by one for every repeat whose termination
\* check returns not-terminal; the repeat whose check returns terminal leaves
\* it unchanged, so k repeats add k, or k - 1 when the k-th terminated.
C2_CounterPerContinuedRepeat ==
    calls > 0 =>
        env_step_counter = counter_start + repeats - (IF broke THEN 1 ELSE 0)

C2_Witness ==
    /\ pc = "idle"
    /\ calls > 0
    /\ repeats = 2
    /\ broke
    /\ env_step_counter = counter_start + 1

\* C3: under inverse kinematics without orientation control, on every repeat
\* of a step() the hand position before clipping is the persisted hand
\* position plus 0.005 times the normalized action.
C3_DeltaEachRepeat ==
    (use_IK = 1 /\ control_orientation = 0 /\ pc # "idle" /\ repeats >= 1) =>
        \A i \in 1..3 : pre_clip[i] = hand_before[i] + 5000 * norm_action[i]

\* C4: under inverse kinematics, after reset() and any sequence of step()
\* calls, the persisted hand position is inside the workspace limits (z-minimum
\* at the table height) and, when orientation is controlled, the persisted
\* orientation is inside the rotation limits.
C4_HandPoseInLimits ==
    (use_IK = 1 /\ was_reset) =>
        /\ \A i \in 1..3 :
              /\ hand_pose[i] >= workspace[i][1] * 1000
              /\ hand_pose[i] <= workspace[i][2] * 1000
        /\ workspace[3][1] = TableHeight
        /\ control_orientation = 1 =>
              \A i \in 4..6 : /\ hand_pose[i] >= RotationLim[i - 3][1]
                              /\ hand_pose[i] <= RotationLim[i - 3][2]

\* a repeat whose unclipped position left the workspace
C4_Witness ==
    /\ use_IK = 1
    /\ repeats >= 1
    /\ pre_clip # <<>>
    /\ \/ pre_clip[1] > workspace[1][2] * 1000
       \/ pre_clip[3] < workspace[3][1] * 1000
    /\ hand_pose[1] <= workspace[1][2] * 1000
    /\ hand_pose[3] >= workspace[3][1] * 1000

\* C5: reset() from any state, Terminated included, clears the terminated flag
\* and sets step_counter to 0.
C5_ResetClears ==
    (was_reset /\ calls = 0) => (terminated = 0 /\ env_step_counter = 0)

\* the state right after a reset() that was called in a terminated episode
C5_Witness ==
    /\ was_reset
    /\ calls = 0
    /\ reset_from = "terminated"
    /\ terminated = 0
    /\ env_step_counter = 0

\* C6: the termination check returns terminal exactly when
\* d(object, target) <= 0.03, or the episode was already marked terminated, or
\* step_counter > max_steps.
C6_TerminationPredicate ==
    chk.ret # -1 =>
        (chk.ret = 1 <=> \/ DistSq(obj_pos, tg_pose) <= 900
                         \/ chk.term_before = 1
                         \/ chk.counter > max_steps)

\* the boundary: d = 0.03 exactly, nothing else terminal
C6_Witness ==
    /\ chk.ret = 1
    /\ DistSq(obj_pos, tg_pose) = 900
    /\ chk.term_before = 0
    /\ chk.counter <= max_steps

\* C7: with a zero reference distance recorded by reset(), the reward under
\* the normalized-staged policy is a fatal error, never a returned value.
C7_ZeroReferenceIsFatal ==
    (reward_type = 1 /\ reward.kind # "none"
     /\ (init_dist_hand_obj = 0 \/ max_dist_obj_tg = 0)) =>
        reward.kind = "error"

\* C8: two environments of the same configuration (noise std > 0), seeded
\* with the same value and reset with the object at the same position, obtain
\* the same target pose.
C8_SameSeedSameTarget ==
    (first.set /\ was_reset /\ tg_pose_rnd_std > 0 /\ np_random # -1
     /\ np_random = first.seed /\ obj_pos = first.obj) =>
        tg_pose = first.tg

\* C9: with render = false no step() or reset() sleeps.
C9_HeadlessNeverSleeps ==
    ~renders => ~slept

\* C10: normalized-staged reward: 0.125 (1 - d1/init) when d1 > 0.1,
\* 0.125 (1 - d1/init) + 0.25 (1 - d2/max) otherwise, plus 1000 exactly when
\* d2 <= 0.03.
C10_StagedReward ==
    (reward_type = 1 /\ reward.kind # "none"
     /\ init_dist_hand_obj > 0 /\ max_dist_obj_tg > 0) =>
        LET d1 == goal_distance(hand_obs, obj_pos)
            d2 == goal_distance(obj_pos, tg_pose)
            reach == QuotZ(125 * (10000 - QuotZ(d1 * 10000, init_dist_hand_obj)), 100)
            push == QuotZ(250 * (10000 - QuotZ(d2 * 10000, max_dist_obj_tg)), 100)
            staged == IF DistSq(hand_obs, obj_pos) > 10000 THEN reach
                                                           ELSE reach + push
            extra == IF DistSq(obj_pos, tg_pose) <= 900 THEN Bonus ELSE 0
        IN  reward = [kind |-> "value", v |-> staged + extra]

\* init distance 0.3, d1 = 0.15 (> 0.1), d2 > 0.03: reward 0.0625
C10_Witness ==
    /\ reward_type = 1
    /\ reward.kind = "value"
    /\ reward.v = 6250
    /\ init_dist_hand_obj = 2 * goal_distance(hand_obs, obj_pos)
    /\ DistSq(obj_pos, tg_pose) > 900

\* C11: for every object position and noise std, the sampled target has x in
\* [ws_x_min + 0.07, ws_x_max - 0.07], y in [ws_y_min, ws_y_max] and the z of
\* the object; with std 0 it is (object_x + 0.05, object_y + 0.05, object_z)
\* with x and y clipped to those ranges.
C11_TargetInRange ==
    was_reset =>
        LET x_min == workspace[1][1] + 70
            x_max == workspace[1][2] - 70
            y_min == workspace[2][1]
            y_max == workspace[2][2]
            ox == obj_pos[1] + 50
            oy == obj_pos[2] + 50
        IN  /\ tg_pose[1] >= x_min /\ tg_pose[1] <= x_max
            /\ tg_pose[2] >= y_min /\ tg_pose[2] <= y_max
            /\ tg_pose[3] = obj_pos[3]
            /\ tg_pose_rnd_std = 0 =>
                  /\ tg_pose[1] = (IF ox < x_min THEN x_min
                                   ELSE IF ox > x_max THEN x_max ELSE ox)
                  /\ tg_pose[2] = (IF oy < y_min THEN y_min
                                   ELSE IF oy > y_max THEN y_max ELSE oy)

\* std 0: x clipped to ws_x_max - 0.07 and y the plain offset from the object
C11_Witness ==
    /\ was_reset
    /\ tg_pose_rnd_std = 0
    /\ obj_pos[1] + 50 > workspace[1][2] - 70
    /\ tg_pose[1] = workspace[1][2] - 70
    /\ obj_pos[2] + 50 < workspace[2][2]
    /\ tg_pose[2] = obj_pos[2] + 50

\* C12: within one step() the repeat loop stops right after the first repeat
\* whose termination check is terminal: nothing is dispatched and no physics
\* sub-step is taken after it, so a step() performs between 1 and
\* action_repeat dispatch + physics sub-steps.
C12_StopsAtFirstTerminal ==
    calls > 0 =>
        /\ repeats <= action_repeat
        /\ pc = "loop" => (~broke /\ repeats < action_repeat)
        /\ pc # "loop" => repeats >= 1
        /\ (pc = "finish" /\ repeats >= 1) => dispatched # <<>>

\* a step() that returned after one repeat although more were configured
C12_Witness ==
    /\ pc = "idle"
    /\ calls > 0
    /\ broke
    /\ repeats = 1
    /\ action_repeat >= 2

\* C13: under direct joint control, on every repeat the target dispatched to
\* the robot is the controlled-joint values read at that repeat plus 0.05
\* times the normalized action, and step() does not modify the hand pose.
C13_JointTargetEachRepeat ==
    (use_IK = 0 /\ pc # "idle" /\ repeats >= 1) =>
        /\ \A i \in 1..NumJoints :
              dispatched[i] = joints_read[i] + 50000 * norm_action[i]
        /\ hand_pose = <<>>

\* C14: the vector and the bounds list of the observation builder have the
\* same length on every call, the length at construction, after reset() and
\* after every step().
C14_ObservationLengths ==
    /\ obs_len = lim_len
    /\ obs_len = observation_space_dim

\* after a step(): robot 6 + joints, world 6, object in hand 6, target 3
C14_Witness ==
    /\ pc = "idle"
    /\ calls >= 1
    /\ obs_len = 21 + NumJoints
    /\ lim_len = 21 + NumJoints
    /\ observation_space_dim = 21 + NumJoints

\* C15: a termination check made right after reset(), before any step(),
\* returns not-terminal.
C15_FreshResetNotTerminal ==
    (was_reset /\ calls = 0) =>
        Termination(terminated, env_step_counter, max_steps, obj_pos,
                    tg_pose).ret = 0

\* C16: step() returns done = 1 no later than the ceil((max_steps + 1) / R)-th
\* call of an episode, and step_counter never exceeds max_steps + 1.
C16_OverflowTerminates ==
    /\ env_step_counter <= max_steps + 1
    /\ (pc = "idle" /\ calls >= (max_steps + action_repeat) \div action_repeat)
           => done = 1

\* the call at which the counter overflows, without any success
C16_Witness ==
    /\ pc = "idle"
    /\ calls = (max_steps + action_repeat) \div action_repeat
    /\ done = 1
    /\ terminated = 0
    /\ env_step_counter = max_steps + 1

\* C17: whenever step() returns a reward that includes the +1000 bonus, the
\* done flag of the same step() is 1 and the episode is marked terminated,
\* and it stays marked until the next reset().
C17_BonusImpliesDone ==
    /\ [](reward.v > Bonus \div 2 => (done = 1 /\ terminated = 1))
    /\ [][(terminated = 1 /\ calls' # 0) => terminated' = 1]_vars

C17_Witness ==
    /\ pc = "idle"
    /\ reward.kind = "value"
    /\ reward.v > Bonus \div 2
    /\ done = 1
    /\ terminated = 1

\* C18: once an episode is terminal, a further step() before reset() still
\* dispatches exactly one action and takes exactly one physics sub-step
\* (under inverse kinematics it still stores the hand pose it dispatched) and
\* leaves step_counter unchanged.  When the loop has ended, chk is its last
\* check; the checks before it were not terminal, so chk.term_before is the
\* terminated flag the step() started with.
C18_StepAfterTerminal ==
    (pc = "finish" /\ (chk.term_before = 1 \/ counter_start > max_steps)) =>
        /\ repeats = 1
        /\ dispatched # <<>>
        /\ env_step_counter = counter_start
        /\ use_IK = 1 => hand_pose = dispatched

\* a step() of a terminated episode that moved the persisted hand pose
C18_Witness ==
    /\ pc = "finish"
    /\ chk.term_before = 1
    /\ action_repeat >= 2
    /\ repeats = 1
    /\ use_IK = 1
    /\ hand_pose # hand_before
    /\ env_step_counter = counter_start

\* C19: under inverse kinematics reset() restores the persisted hand pose to
\* the robot's home hand pose whatever the earlier episodes did, and no
\* step() modifies the robot's home hand pose.
C19_HomePoseRestored ==
    /\ home_hand_pose = HomeHandPose
    /\ (use_IK = 1 /\ was_reset /\ calls = 0) => hand_pose = HomeHandPose

\* the reset() after an episode that ran to termination
C19_Witness ==
    /\ use_IK = 1
    /\ was_reset
    /\ calls = 0
    /\ reset_from = "terminated"
    /\ hand_alias
    /\ hand_pose = HomeHandPose
    /\ home_hand_pose = HomeHandPose

====
